---------------------------- MODULE Spec2Model ----------------------------
(***************************************************************************)
(* WordleBot (src/main.cpp): the feedback evaluator getResult, the guess   *)
(* selector makeGuess, the candidate filter updateValidWords and the game  *)
(* loop solve, driven by main.                                             *)
(*                                                                         *)
(* A word is a sequence of five letters, a letter a one-character string.  *)
(* A result is a sequence of five of "0" (grey), "1" (yellow), "2" (green).*)
(* The keys guess+word and guess+result of the two global hash maps are    *)
(* the concatenations (\o) of the two sequences.                           *)
(***************************************************************************)
EXTENDS Integers, Sequences, FiniteSets, TLC

VARIABLES
    pc,               \* where main is
    wordFile,         \* wordlewords.txt: whether it exists, and its lines
    guessFile,        \* guess1.txt: whether it exists, and its first line
    words,            \* unordered_set<string> words
    order,            \* the iteration order of the unordered_sets of this run
    firstGuess,       \* string firstGuess
    guessWordMap,     \* unordered_map guess+result -> set of words
    guessWordResult,  \* unordered_map guess+word -> result
    word,             \* solve: the wordle (getResult's word in SpecEval)
    numGuesses,       \* solve: numGuesses
    validWords,       \* solve: validWords (makeGuess's validWords in SpecSel)
    guess,            \* solve: the last guess (getResult's guess in SpecEval)
    result,           \* the last value getResult returned to solve
    guesses,          \* history: the guesses of the game in progress
    nGames,           \* main: the loop counter i, results.size()
    solved,           \* history: for every word solved, the guesses and the
                      \* count of each different game on it
    wordPool          \* makeGuess's wordPool (SpecSel only)

vars == <<pc, wordFile, guessFile, words, order, firstGuess, guessWordMap,
          guessWordResult, word, numGuesses, validWords, guess, result,
          guesses, nGames, solved, wordPool>>

-----------------------------------------------------------------------------
(* Bounds of the model. *)

\* main plays at most this many games (the loop of main runs SAMPLE_SIZE times).
MaxGames == 3

\* solve makes at most this many guesses in the model (its loop has no bound).
MaxGuesses == 9

\* SpecEval draws guess and word from the words over the first NumLetters letters.
NumLetters == 3

-----------------------------------------------------------------------------
(* Program constants. *)

SAMPLE == TRUE
SAMPLE_SIZE == 100
LABEL_ALL_DUPES == FALSE

AZ == <<"A","B","C","D","E","F","G","H","I","J","K","L","M",
        "N","O","P","Q","R","S","T","U","V","W","X","Y","Z">>
az == <<"a","b","c","d","e","f","g","h","i","j","k","l","m",
        "n","o","p","q","r","s","t","u","v","w","x","y","z">>

\* letter - 'A' for an upper-case letter
Ord == [c \in {AZ[i] : i \in 1..26} |-> (CHOOSE i \in 1..26 : AZ[i] = c) - 1]

\* ::toupper
toupper(c) ==
    IF \E i \in 1..26 : az[i] = c
    THEN AZ[CHOOSE i \in 1..26 : az[i] = c]
    ELSE c

\* The empty string, and a file that does not exist (!in) or holds lines.
NoWord == <<>>
upper(line) == [i \in 1..Len(line) |-> toupper(line[i])]

NoFile == [exists |-> FALSE, lines |-> <<>>]
File(ls) == [exists |-> TRUE, lines |-> ls]

-----------------------------------------------------------------------------
(* getResult *)

\* int wordCount[26] = {0}; for (char letter : word) wordCount[letter-'A']++;
CountLetters(w) ==
    [k \in 0..25 |-> Cardinality({i \in 1..Len(w) : Ord[w[i]] = k})]

\* One of the five "green" if statements, for position i (1-based here).
Green(st, g, w, i) ==
    IF g[i] = w[i]
    THEN [result    |-> [st.result EXCEPT ![i] = "2"],
          wordCount |-> IF ~LABEL_ALL_DUPES
                        THEN [st.wordCount EXCEPT ![Ord[g[i]]] = @ - 1]
                        ELSE st.wordCount]
    ELSE st

\* One of the five "yellow" if statements, for position i; letter is the value
\* the variable letter holds when the condition is evaluated. A count is an
\* int used as a condition: any value but 0 is true.
Yellow(st, g, i, letter) ==
    IF st.result[i] # "2" /\ st.wordCount[Ord[letter]] # 0
    THEN [result    |-> [st.result EXCEPT ![i] = "1"],
          wordCount |-> IF ~LABEL_ALL_DUPES
                        THEN [st.wordCount EXCEPT ![Ord[g[i]]] = @ - 1]
                        ELSE st.wordCount]
    ELSE st

\* The body of getResult after the memo lookup (lines 215-320). The first
\* yellow statement is evaluated while letter still holds guess[4] (line 263);
\* the others reassign letter first.
ComputeResult(g, w) ==
    LET s0  == [result |-> <<"0","0","0","0","0">>, wordCount |-> CountLetters(w)]
        g1  == Green(s0, g, w, 1)
        g2  == Green(g1, g, w, 2)
        g3  == Green(g2, g, w, 3)
        g4  == Green(g3, g, w, 4)
        g5  == Green(g4, g, w, 5)
        y1  == Yellow(g5, g, 1, g[5])
        y2  == Yellow(y1, g, 2, g[2])
        y3  == Yellow(y2, g, 3, g[3])
        y4  == Yellow(y3, g, 4, g[4])
        y5  == Yellow(y4, g, 5, g[5])
    IN  y5.result

\* getResult's return value, given the memo table.
getResult(memo, g, w) ==
    IF (g \o w) \in DOMAIN memo THEN memo[g \o w] ELSE ComputeResult(g, w)

\* guessWordResult after the calls getResult(g, w) for the pairs in calls:
\* guessWordResult[guess+word] = result for each key that was missing.
Memoize(memo, calls) ==
    LET keys == {c[1] \o c[2] : c \in calls}
    IN  [k \in DOMAIN memo \cup keys |->
            IF k \in DOMAIN memo THEN memo[k]
            ELSE ComputeResult(SubSeq(k, 1, 5), SubSeq(k, 6, 10))]

-----------------------------------------------------------------------------
(* The hash maps and the iteration order *)

\* m[k] of an unordered_map read with operator[]: the value, or a
\* default-constructed (empty) one, which operator[] also inserts (Touch).
Lookup(m, k) == IF k \in DOMAIN m THEN m[k] ELSE {}

Touch(m, keys) == [k \in DOMAIN m \cup keys |-> Lookup(m, k)]

\* The elements of set S in the order a range-for or begin()..end() visits
\* them. The standard leaves the order of an unordered_set unspecified; the
\* model fixes one order per run (ord lists every word once).
Iter(ord, S) == SelectSeq(ord, LAMBDA w : w \in S)

RECURSIVE SumSeq(_)
SumSeq(s) == IF s = <<>> THEN 0 ELSE Head(s) + SumSeq(Tail(s))

-----------------------------------------------------------------------------
(* countNewValidWords, makeGuess, updateValidWords, generateGuessWordMap *)

countNewValidWords(map, valid, g, r) ==
    Cardinality({w \in Lookup(map, g \o r) : w \in valid})

\* total of makeGuess's inner loop for the guess g
Total(memo, map, ord, valid, g) ==
    LET vs == Iter(ord, valid)
    IN  SumSeq([i \in 1..Len(vs) |->
                  countNewValidWords(map, valid, g, getResult(memo, g, vs[i]))])

\* The outer loop of makeGuess from position i of the pool's iteration on.
RECURSIVE MakeGuessLoop(_, _, _, _, _, _, _, _)
MakeGuessLoop(memo, map, ord, valid, ps, i, bestGuess, minPossibleWords) ==
    IF i > Len(ps) THEN bestGuess
    ELSE LET total == Total(memo, map, ord, valid, ps[i])
         IN  IF total < minPossibleWords
             THEN MakeGuessLoop(memo, map, ord, valid, ps, i + 1, ps[i], total)
             ELSE MakeGuessLoop(memo, map, ord, valid, ps, i + 1,
                                bestGuess, minPossibleWords)

\* Mutant of makeGuess: minPossibleWords starts at n, not at pow(n, 2).
makeGuessLinearBound(memo, map, ord, pool, valid) ==
    LET n == Cardinality(valid)
    IN  MakeGuessLoop(memo, map, ord, valid, Iter(ord, pool), 1,
                      Head(Iter(ord, valid)), n)

\* makeGuess's return value; valid is not empty (*validWords.begin()).
makeGuess(memo, map, ord, pool, valid) ==
    LET n == Cardinality(valid)
    IN  MakeGuessLoop(memo, map, ord, valid, Iter(ord, pool), 1,
                      Head(Iter(ord, valid)), n * n)

\* What a call of makeGuess leaves in the two tables: a memo entry for every
\* pair (guess, word) of the two loops, and the default entries that
\* countNewValidWords's guessWordMap[guess+result] inserts.
MakeGuessMemo(memo, pool, valid) == Memoize(memo, pool \X valid)

MakeGuessMap(memo, map, pool, valid) ==
    Touch(map, {g \o getResult(memo, g, w) : g \in pool, w \in valid})

\* Mutant of updateValidWords: possibleWords is not filtered by validWords.
updateValidWordsUnfiltered(map, valid, g, r) ==
    [validWords   |-> Lookup(map, g \o r),
     guessWordMap |-> Touch(map, {g \o r})]

\* Mutant of updateValidWords: validWords is passed by value, the new set
\* is lost.
updateValidWordsByValue(map, valid, g, r) ==
    [validWords   |-> valid,
     guessWordMap |-> Touch(map, {g \o r})]

\* Mutant of updateValidWords: possibleWords is a reference into
\* guessWordMap and the filtered set is written through it.
updateValidWordsWriteBack(map, valid, g, r) ==
    LET new == {w \in Lookup(map, g \o r) : w \in valid}
    IN  [validWords   |-> new,
         guessWordMap |-> [k \in DOMAIN map \cup {g \o r} |->
                              IF k = g \o r THEN new ELSE map[k]]]

\* updateValidWords: the new validWords, and guessWordMap after the read
\* guessWordMap[guess+result].
updateValidWords(map, valid, g, r) ==
    [validWords   |-> {w \in Lookup(map, g \o r) : w \in valid},
     guessWordMap |-> Touch(map, {g \o r})]

\* generateGuessWordMap: guessWordMap[guess+getResult(guess, word)].insert(word)
\* for every pair of words; getResult memoizes every pair on the way.
GeneratedMemo(memo, ws) == Memoize(memo, ws \X ws)

GeneratedMap(memo, map, ws) ==
    LET m2   == GeneratedMemo(memo, ws)
        keys == {g \o m2[g \o w] : g \in ws, w \in ws}
    IN  [k \in DOMAIN map \cup keys |->
            Lookup(map, k) \cup
            {w \in ws : SubSeq(k, 1, 5) \in ws
                        /\ m2[SubSeq(k, 1, 5) \o w] = SubSeq(k, 6, 10)}]

-----------------------------------------------------------------------------
(* The inputs: the files the model runs on *)

CRANE == <<"C","R","A","N","E">>
SLATE == <<"S","L","A","T","E">>
TRACE == <<"T","R","A","C","E">>
PLATE == <<"P","L","A","T","E">>
GRAPE == <<"G","R","A","P","E">>
SPEED == <<"S","P","E","E","D">>
ERASE == <<"E","R","A","S","E">>

\* The toy dictionary of the spec, one line in lower case and one line twice.
ToyFile == << <<"c","r","a","n","e">>, SLATE, TRACE, PLATE, GRAPE, CRANE >>

\* Eight words that share their middle letters. DAAAS, EAAAT, FAAAU, BAAAP
\* and CAAAQ tell nothing apart but themselves; GAAAR sets BAAAR and GAAAV
\* apart from them; BAAAR tells BAAAP from CAAAQ.
GAAAR == <<"G","A","A","A","R">>
DAAAS == <<"D","A","A","A","S">>
EAAAT == <<"E","A","A","A","T">>
FAAAU == <<"F","A","A","A","U">>
BAAAR == <<"B","A","A","A","R">>
BAAAP == <<"B","A","A","A","P">>
CAAAQ == <<"C","A","A","A","Q">>
GAAAV == <<"G","A","A","A","V">>

DeepFile == << GAAAR, DAAAS, EAAAT, FAAAU, BAAAR, BAAAP, CAAAQ, GAAAV >>

\* Words with repeated letters.
DupFile == << SPEED, ERASE, CRANE >>

OneFile == << CRANE >>

EmptyFile == << >>

WordFiles == {NoFile} \cup
             {File(ls) : ls \in {EmptyFile, OneFile, DupFile, ToyFile, DeepFile}}

\* guess1.txt: missing, empty, or one upper-case word
GuessFiles == {NoFile} \cup
              {File(<<w>>) : w \in {NoWord, CRANE, SLATE, SPEED, GAAAR, BAAAR}}

\* getline(in, line) on guess1.txt
FirstLine(f) == IF f.lines = <<>> THEN NoWord ELSE f.lines[1]

\* The words loadWords inserts for the lines ls.
WordsOf(ls) == {upper(ls[i]) : i \in 1..Len(ls)}

\* The lines of a file in upper case, each once, in the order of the file.
RECURSIVE Distinct(_)
Distinct(f) ==
    IF f = <<>> THEN <<>>
    ELSE LET rest == Distinct(SubSeq(f, 1, Len(f) - 1))
             last == upper(f[Len(f)])
         IN  IF \E i \in 1..Len(rest) : rest[i] = last THEN rest
             ELSE Append(rest, last)

Rotate(s, k) == [i \in 1..Len(s) |-> s[((i + k - 1) % Len(s)) + 1]]

Reverse(s) == [i \in 1..Len(s) |-> s[Len(s) + 1 - i]]

\* The iteration orders the model tries for the words of a file: the
\* rotations of the file's order and of its reverse.
Orders(f) ==
    LET d == Distinct(f)
    IN  IF d = <<>> THEN {<<>>}
        ELSE {Rotate(d, k) : k \in 0..(Len(d) - 1)}
             \cup {Rotate(Reverse(d), k) : k \in 0..(Len(d) - 1)}

-----------------------------------------------------------------------------
(* main *)

Init ==
    /\ pc = "start"
    /\ wordFile \in WordFiles
    /\ guessFile \in GuessFiles
    /\ words = {}
    /\ order = <<>>
    /\ firstGuess = NoWord
    /\ guessWordMap = <<>>
    /\ guessWordResult = <<>>
    /\ word = NoWord
    /\ numGuesses = 0
    /\ validWords = {}
    /\ guess = NoWord
    /\ result = NoWord
    /\ guesses = <<>>
    /\ nGames = 0
    /\ solved = <<>>
    /\ wordPool = {}

\* loadWords, and main's return 1 when it fails
LoadWords ==
    /\ pc = "start"
    /\ IF ~wordFile.exists
       THEN /\ pc' = "failed"
            /\ UNCHANGED <<words, order>>
       ELSE /\ words' = WordsOf(wordFile.lines)
            /\ order' \in Orders(wordFile.lines)
            /\ pc' = "loaded"
    /\ UNCHANGED <<wordFile, guessFile, firstGuess, guessWordMap,
                   guessWordResult, word, numGuesses, validWords, guess,
                   result, guesses, nGames, solved, wordPool>>

\* generateGuessWordMap
GenerateGuessWordMap ==
    /\ pc = "loaded"
    /\ guessWordResult' = GeneratedMemo(guessWordResult, words)
    /\ guessWordMap' = GeneratedMap(guessWordResult, guessWordMap, words)
    /\ pc' = "mapped"
    /\ UNCHANGED <<wordFile, guessFile, words, order, firstGuess, word,
                   numGuesses, validWords, guess, result, guesses, nGames, solved,
                   wordPool>>

\* loadGuess, and main's return 1 when it fails. makeGuess(words, words) on
\* an empty words dereferences words.begin() == words.end(): undefined.
LoadGuess ==
    /\ pc = "mapped"
    /\ IF ~guessFile.exists
       THEN /\ pc' = "failed"
            /\ UNCHANGED <<guessFile, firstGuess, guessWordMap, guessWordResult>>
       ELSE IF FirstLine(guessFile) # NoWord
       THEN /\ firstGuess' = FirstLine(guessFile)
            /\ pc' = "ready"
            /\ UNCHANGED <<guessFile, guessWordMap, guessWordResult>>
       ELSE IF words = {}
       THEN /\ pc' = "undefined"
            /\ UNCHANGED <<guessFile, firstGuess, guessWordMap, guessWordResult>>
       ELSE /\ firstGuess' = makeGuess(guessWordResult, guessWordMap, order,
                                       words, words)
            /\ guessWordResult' = MakeGuessMemo(guessWordResult, words, words)
            /\ guessWordMap' = MakeGuessMap(guessWordResult, guessWordMap,
                                            words, words)
            /\ guessFile' = File(<<firstGuess'>>)
            /\ pc' = "ready"
    /\ UNCHANGED <<wordFile, words, order, word, numGuesses, validWords,
                   guess, result, guesses, nGames, solved, wordPool>>

\* One pass of main's sampling loop up to the call of solve, and solve up to
\* its loop. wordsVector[rand() % wordsVector.size()] divides by zero when
\* words is empty: undefined.
StartGame ==
    /\ pc = "ready"
    /\ SAMPLE
    /\ nGames < SAMPLE_SIZE
    /\ nGames < MaxGames
    /\ IF words = {}
       THEN /\ pc' = "undefined"
            /\ UNCHANGED <<word, numGuesses, validWords, guesses>>
       ELSE /\ word' \in words
            /\ numGuesses' = 1
            /\ validWords' = words
            /\ guesses' = <<>>
            /\ pc' = "solving"
    /\ UNCHANGED <<wordFile, guessFile, words, order, firstGuess,
                   guessWordMap, guessWordResult, guess, result, nGames, solved,
                   wordPool>>

\* The pool solve hands to makeGuess in this round.
SolvePool == IF numGuesses # 5 THEN validWords ELSE words

\* The guess of this round of solve's loop.
SolveGuess ==
    IF numGuesses = 1 THEN firstGuess
    ELSE makeGuess(guessWordResult, guessWordMap, order, SolvePool, validWords)

\* One round of solve's loop: makeGuess with an empty validWords
\* dereferences validWords.begin() == validWords.end(): undefined.
SolveUndefined ==
    /\ pc = "solving"
    /\ numGuesses # 1
    /\ validWords = {}
    /\ pc' = "undefined"
    /\ UNCHANGED <<wordFile, guessFile, words, order, firstGuess,
                   guessWordMap, guessWordResult, word, numGuesses,
                   validWords, guess, result, guesses, nGames, solved, wordPool>>

\* The tables after the round's call of makeGuess (none in round 1).
RoundMemo ==
    IF numGuesses = 1 THEN guessWordResult
    ELSE MakeGuessMemo(guessWordResult, SolvePool, validWords)

RoundMap ==
    IF numGuesses = 1 THEN guessWordMap
    ELSE MakeGuessMap(guessWordResult, guessWordMap, SolvePool, validWords)

\* One round of solve's loop that guesses the word: solve returns numGuesses
\* and main pushes it onto results.
SolveReturn ==
    /\ pc = "solving"
    /\ numGuesses = 1 \/ validWords # {}
    /\ SolveGuess = word
    /\ guess' = SolveGuess
    /\ guessWordResult' = RoundMemo
    /\ guessWordMap' = RoundMap
    /\ guesses' = Append(guesses, guess')
    /\ solved' = [w \in DOMAIN solved \cup {word} |->
                     IF w = word
                     THEN Lookup(solved, w) \cup
                          {[guesses |-> guesses', numGuesses |-> numGuesses]}
                     ELSE solved[w]]
    /\ nGames' = nGames + 1
    /\ pc' = "ready"
    /\ UNCHANGED <<wordFile, guessFile, words, order, firstGuess, word,
                   numGuesses, validWords, result, wordPool>>

\* One round of solve's loop that misses: getResult, updateValidWords,
\* numGuesses++.
SolveMiss ==
    /\ pc = "solving"
    /\ numGuesses = 1 \/ validWords # {}
    /\ numGuesses < MaxGuesses
    /\ SolveGuess # word
    /\ guess' = SolveGuess
    /\ result' = getResult(RoundMemo, guess', word)
    /\ guessWordResult' = Memoize(RoundMemo, {<<guess', word>>})
    /\ LET u == updateValidWords(RoundMap, validWords, guess', result')
       IN  /\ validWords' = u.validWords
           /\ guessWordMap' = u.guessWordMap
    /\ numGuesses' = numGuesses + 1
    /\ guesses' = Append(guesses, guess')
    /\ UNCHANGED <<pc, wordFile, guessFile, words, order, firstGuess, word,
                   nGames, solved, wordPool>>

Next ==
    \/ LoadWords
    \/ GenerateGuessWordMap
    \/ LoadGuess
    \/ StartGame
    \/ SolveUndefined
    \/ SolveReturn
    \/ SolveMiss

Spec == Init /\ [][Next]_vars

-----------------------------------------------------------------------------
(* getResult alone: every guess and word over the first NumLetters letters *)

EvalLetters == {AZ[i] : i \in 1..NumLetters}

EvalWords == [1..5 -> EvalLetters]

InitEval ==
    /\ pc = "eval"
    /\ guess \in EvalWords
    /\ word \in EvalWords
    /\ wordFile = NoFile
    /\ guessFile = NoFile
    /\ words = {}
    /\ order = <<>>
    /\ firstGuess = NoWord
    /\ guessWordMap = <<>>
    /\ guessWordResult = <<>>
    /\ numGuesses = 0
    /\ validWords = {}
    /\ result = NoWord
    /\ guesses = <<>>
    /\ nGames = 0
    /\ solved = <<>>
    /\ wordPool = {}

\* getResult(guess, word), the first call (computed, memoized) and the
\* second (looked up)
Evaluate ==
    /\ pc \in {"eval", "evaluated"}
    /\ result' = getResult(guessWordResult, guess, word)
    /\ guessWordResult' = Memoize(guessWordResult, {<<guess, word>>})
    /\ pc' = IF pc = "eval" THEN "evaluated" ELSE "looked up"
    /\ UNCHANGED <<wordFile, guessFile, words, order, firstGuess,
                   guessWordMap, word, numGuesses, validWords, guess,
                   guesses, nGames, solved, wordPool>>

NextEval == Evaluate

SpecEval == InitEval /\ [][NextEval]_vars

-----------------------------------------------------------------------------
(* makeGuess alone: every guess pool and candidate set of a dictionary *)

SelFiles == {File(DupFile), File(ToyFile)}

InitSel ==
    /\ pc = "select"
    /\ wordFile \in SelFiles
    /\ guessFile = NoFile
    /\ words = WordsOf(wordFile.lines)
    /\ guessWordResult = GeneratedMemo(<<>>, words)
    /\ guessWordMap = GeneratedMap(<<>>, <<>>, words)
    /\ order \in Orders(wordFile.lines)
    /\ wordPool \in (SUBSET words) \ {{}}
    /\ validWords \in (SUBSET words) \ {{}}
    /\ firstGuess = NoWord
    /\ word = NoWord
    /\ numGuesses = 0
    /\ guess = NoWord
    /\ result = NoWord
    /\ guesses = <<>>
    /\ nGames = 0
    /\ solved = <<>>

\* guess = makeGuess(wordPool, validWords)
Select ==
    /\ pc = "select"
    /\ guess' = makeGuess(guessWordResult, guessWordMap, order, wordPool,
                          validWords)
    /\ guessWordResult' = MakeGuessMemo(guessWordResult, wordPool, validWords)
    /\ guessWordMap' = MakeGuessMap(guessWordResult, guessWordMap, wordPool,
                                    validWords)
    /\ pc' = "selected"
    /\ UNCHANGED <<wordFile, guessFile, words, order, firstGuess, word,
                   numGuesses, validWords, result, guesses, nGames, solved, wordPool>>

NextSel == Select

SpecSel == InitSel /\ [][NextSel]_vars

-----------------------------------------------------------------------------
(* Definitions the claims are stated with *)

RECURSIVE SetSum(_, _)
SetSum(f, S) ==
    IF S = {} THEN 0
    ELSE LET x == CHOOSE y \in S : TRUE
         IN  f[x] + SetSum(f, S \ {x})

Count(c, w) == Cardinality({i \in 1..Len(w) : w[i] = c})

\* The two-pass reference evaluator: the scan of the positions from i on,
\* rem the remaining count of every letter.
RECURSIVE RefScan(_, _, _, _)
RefScan(g, t, i, rem) ==
    IF i > 5 THEN <<>>
    ELSE IF g[i] = t[i] THEN <<"2">> \o RefScan(g, t, i + 1, rem)
    ELSE IF rem[g[i]] > 0
         THEN <<"1">> \o RefScan(g, t, i + 1, [rem EXCEPT ![g[i]] = @ - 1])
         ELSE <<"0">> \o RefScan(g, t, i + 1, rem)

RefResult(g, t) ==
    LET letters == {g[i] : i \in 1..5} \cup {t[i] : i \in 1..5}
        rem0 == [c \in letters |->
                    Count(c, t) - Cardinality({i \in 1..5 : g[i] = c /\ t[i] = c})]
    IN  RefScan(g, t, 1, rem0)

\* The score of the guess g against the candidates of the current state.
Score(g) ==
    SetSum([a \in validWords |->
               countNewValidWords(guessWordMap, validWords, g,
                                  getResult(guessWordResult, g, a))],
           validWords)

Evaluated == pc \in {"evaluated", "looked up"}

-----------------------------------------------------------------------------
(* The claims *)

\* C1 (as stated): getResult(g, t) equals the two-pass reference evaluator,
\* in which a position that is not green is yellow exactly when the remaining
\* count of its own letter is positive.
C1_Reference == Evaluated => result = RefResult(guess, word)

\* C2 (as stated): for every letter c, getResult marks at most as many
\* positions holding c green or yellow as c occurs in the word.
C2_DuplicateLetters ==
    Evaluated =>
        \A c \in EvalLetters :
            Cardinality({i \in 1..5 : guess[i] = c /\ result[i] \in {"1", "2"}})
                <= Count(c, word)

\* C3 (as stated): makeGuess returns a member of the guess pool whose score
\* is at most the score of every word of the pool.
C3_Original ==
    pc = "selected" =>
        /\ guess \in wordPool
        /\ \A g \in wordPool : Score(guess) <= Score(g)

\* C3 (amended): makeGuess returns a member of the guess pool or of the
\* candidates, a member of the pool whenever the candidates are part of the
\* pool, and its score is at most the score of every word of the pool.
C3_Amended ==
    pc = "selected" =>
        /\ guess \in wordPool \cup validWords
        /\ validWords \subseteq wordPool => guess \in wordPool
        /\ \A g \in wordPool : Score(guess) <= Score(g)

\* C3, witness: makeGuess returned a word of the pool that is no candidate,
\* and the pool holds candidates that score worse.
C3_Witness ==
    /\ pc = "selected"
    /\ validWords \subseteq wordPool
    /\ Cardinality(validWords) >= 3
    /\ guess \in wordPool \ validWords
    /\ \E g \in validWords : Score(g) > Score(guess)

\* Some candidate of the round's pool has the least score of the pool.
CandidateIsBest ==
    \E c \in SolvePool \cap validWords :
        \A g \in SolvePool : Score(c) <= Score(g)

\* C4 (as stated): when a candidate shares the minimum score, the guess
\* makeGuess returns in a round of solve is a candidate.
C4_TieBreak ==
    [][(pc = "solving" /\ numGuesses # 1 /\ validWords # {} /\ guess' # guess
        /\ CandidateIsBest) => guess' \in validWords]_vars

\* C5: with firstGuess in the dictionary, the word stays in validWords while
\* solve runs, and every updateValidWords leaves a subset of validWords.
C5_Monotone ==
    [][/\ (pc' = "solving" /\ firstGuess' \in words') => word' \in validWords'
       /\ (pc = "solving" /\ pc' = "solving" /\ firstGuess \in words) =>
             /\ validWords' \subseteq validWords
             /\ Cardinality(validWords') <= Cardinality(validWords)]_vars

\* C5, witness: two updates into a game, candidates have gone and more than
\* the word are left.
C5_Witness ==
    /\ pc = "solving"
    /\ firstGuess \in words
    /\ numGuesses >= 3
    /\ word \in validWords
    /\ Cardinality(validWords) >= 2
    /\ Cardinality(validWords) < Cardinality(words)

\* C6: with firstGuess in the dictionary (as makeGuess(words, words) is),
\* solve never starts a round beyond |words| and can always play the round
\* it is in: makeGuess has a candidate to start from and the model's bound
\* on the rounds is not reached (so solve returns: every round that misses
\* adds one to numGuesses),
\* and every game ends with the word as its last guess and returns a count
\* of at most |words|.
C6_Bound ==
    firstGuess \in words =>
        /\ pc = "solving" =>
              /\ numGuesses <= Cardinality(words)
              /\ numGuesses = 1 \/ validWords # {}
              /\ numGuesses < MaxGuesses
        /\ \A w \in DOMAIN solved : \A g \in solved[w] :
              /\ g.guesses[Len(g.guesses)] = w
              /\ g.numGuesses = Len(g.guesses)
              /\ g.numGuesses <= Cardinality(words)

\* C6, witness: firstGuess is what makeGuess(words, words) returns, and a
\* game was solved whose guess 5 had been eliminated by the first guess.
C6_Witness ==
    /\ pc = "ready"
    /\ words # {}
    /\ firstGuess = makeGuess(guessWordResult, guessWordMap, order, words, words)
    /\ \E w \in DOMAIN solved : \E g \in solved[w] :
          /\ g.numGuesses >= 6
          /\ getResult(guessWordResult, g.guesses[1], g.guesses[5])
                # getResult(guessWordResult, g.guesses[1], w)

\* C7: the games of one run on the same word all make the same guesses and
\* return the same count, whatever games were played before or between.
C7_Deterministic ==
    \A w \in DOMAIN solved : Cardinality(solved[w]) = 1

\* C7, witness: three games were played on two words, so one word was
\* solved twice, with the other word solved before, between or after, and
\* every game took three guesses or more.
C7_Witness ==
    /\ nGames = 3
    /\ Cardinality(DOMAIN solved) = 2
    /\ \A w \in DOMAIN solved : \A g \in solved[w] : g.numGuesses >= 3

\* C8 (as stated): whatever word guess1.txt holds, the word stays in
\* validWords after the first update and makeGuess is never called with an
\* empty validWords.
C8_CacheNotCritical ==
    (words # {} /\ firstGuess # NoWord) =>
        /\ pc # "undefined"
        /\ (pc = "solving" /\ numGuesses >= 2) => word \in validWords

\* C9 (as stated): when the word list has no words, generateGuessWordMap,
\* makeGuess and solve are never executed.
C9_RefusesEmpty ==
    (wordFile.exists /\ WordsOf(wordFile.lines) = {}) =>
        pc \in {"start", "loaded", "failed"}

\* C10, for the runs C8's defect leaves out: with firstGuess in the
\* dictionary, the guess of a round that starts with one element in
\* validWords is that element, and it is the word.
C10_FromDictionary ==
    [][(pc = "solving" /\ Cardinality(validWords) = 1 /\ guesses' # guesses
        /\ firstGuess \in words)
          => (guess' \in validWords /\ guess' = word /\ pc' = "ready")]_vars

\* C10 (as stated): in a round of solve that starts with one element in
\* validWords, the guess is that element.
C10_SingleCandidate ==
    [][(pc = "solving" /\ Cardinality(validWords) = 1 /\ guesses' # guesses)
          => guess' \in validWords]_vars

=============================================================================
